---- MODULE Spec2Model ----
(***************************************************************************)
(* PeekingDuck player: the PlayList store of peekingduck/player/playlist.py *)
(* as a state machine.  The store keeps an ordered list of pipeline         *)
(* strings (_pipeline_list) and a dict of PipelineStats keyed by the same   *)
(* strings (_pipeline_stats); stats are computed from the file system.      *)
(***************************************************************************)
EXTENDS Integers, Sequences, FiniteSets, TLC

\* ------------------------------------------------------------------ bounds
\* Longest _pipeline_list the model lets add_pipeline build.
MaxLen == 3

\* ------------------------------------------------------------ value spaces
\* The strings a caller passes.  "./a.yml" and "a.yml" name the same file but
\* are different strings.
Strs == {"a.yml", "./a.yml", "b.yml"}
\* The modification times (st_mtime) a file can have.
Mtimes == {1}

\* pathlib's normalisation of a path string: str(Path("./a.yml")) = "a.yml".
Canon(s) == IF s = "./a.yml" THEN "a.yml" ELSE s

\* The files the strings name.
Paths == {Canon(s) : s \in Strs}

\* Path(s): a pathlib.Path, normalised when it is constructed.
Path(s) == [kind |-> "Path", s |-> Canon(s)]
\* A plain str argument.
PyStr(s) == [kind |-> "str", s |-> s]
\* Union[Path, str]: what add_pipeline, remove_pipeline and `in` accept.
Items == {Path(s) : s \in Strs} \cup {PyStr(s) : s \in Strs}
\* str(item): the identity on a str, the normalised string of a Path.
str(item) == item.s

\* Optional values: None is <<>>, a value v is <<v>>.
None == <<>>
Some(v) == <<v>>

\* The indices playlist[i] is tried with: negative, in range, len and beyond.
Indices == (0 - 1) .. MaxLen

Range(l) == {l[k] : k \in 1 .. Len(l)}

VARIABLES
    _pipeline_list,  \* PlayList._pipeline_list: sequence of strings
    _pipeline_stats, \* PlayList._pipeline_stats: function string -> PipelineStats
    fs,              \* the file system: for each path its status and mtime
    playlist_file,   \* content of <home>/.peekingduck/playlist.yaml
    result,          \* the last call: operation, exception raised, return value
    fresh,           \* history: the strings add_pipeline was called with since an
                     \* empty construction, while nothing else has mutated the store
    _iter_idx,       \* PlayList._iter_idx: None until __iter__ first sets it
    yielded,         \* history: what __next__ has returned since the last
                     \* __iter__, while nothing has mutated the store since
    outer,           \* history: what __next__ has returned to a loop over the
                     \* store that was under way when a second loop started
    frames,          \* Player.frames: the frames captured, by number
    frame_idx,       \* Player.frame_idx
    zoom_idx,        \* Player.zoom_idx
    is_output_playback,
    is_pipeline_running,
    state,           \* Player.state: "play" or "stop"
    bkgd_job,        \* Player.bkgd_job: None until timer_function first ran
    _pipeline,       \* Player._pipeline: None until run_pipeline_start, then
                     \* its terminate flag
    num_iter,        \* Player.num_iter
    tk_scale,        \* the slider: its value and its upper end, both in
                     \* halves, and whether it is on screen
    ticks,           \* history: timer ticks since start_playback, while the
                     \* user has done nothing since
    _callback        \* SingleColumnPlayListView._callback

PlayListVars == <<_pipeline_list, _pipeline_stats, fs, playlist_file, result,
                  fresh, _iter_idx, yielded>>
PlayerVars == <<frames, frame_idx, zoom_idx, is_output_playback,
                is_pipeline_running, state, bkgd_job, _pipeline, num_iter,
                tk_scale, ticks>>
vars == <<PlayListVars, outer, PlayerVars, _callback>>

\* ------------------------------------------------------------------ Player
ZOOMS == <<50, 75, 100, 125, 150, 200, 250, 300>>   \* in hundredths
ZOOM_DEFAULT_IDX == 2
ZOOM_TEXT == <<"0.5x", "0.75x", "1x", "1.25x", "1.5x", "2x", "2.5x", "3x">>
OP_LIST == <<"add", "delete", "play">>

\* Player.__init__ for a given num_iter; the slider does not exist yet.
PlayerConstructed(n, v) ==
    /\ frames = <<>>
    /\ frame_idx = 0 - 1
    /\ zoom_idx = ZOOM_DEFAULT_IDX
    /\ is_output_playback = FALSE
    /\ is_pipeline_running = FALSE
    /\ state = "play"
    /\ bkgd_job = <<>>
    /\ _pipeline = <<>>
    /\ num_iter = n
    /\ tk_scale = [value |-> v, to |-> 200, shown |-> FALSE]
    /\ ticks = <<>>

\* The player and the playlist view as they are while only the store is used.
NoPlayer ==
    /\ outer = <<>>
    /\ PlayerConstructed(0, 0)
    /\ _callback = <<>>

\* A call on the store leaves the player and the playlist view alone.
StoreOnly == UNCHANGED <<outer, PlayerVars, _callback>>

\* ------------------------------------------------------------- file system
\* A path is absent, a file with an mtime, or cannot be stat-ed: os.stat raises
\* an OSError that Path.exists() does not swallow (EACCES on a parent directory,
\* ENAMETOOLONG, ...).
FsAbsent == [st |-> "absent", mtime |-> 0]
FsFile(t) == [st |-> "file", mtime |-> t]
FsOSError == [st |-> "oserror", mtime |-> 0]
FsStates == {FsAbsent, FsOSError} \cup {FsFile(t) : t \in Mtimes}

\* os.stat of a path; every path the model does not track is absent.
stat(p) == IF p \in DOMAIN fs THEN fs[p] ELSE FsAbsent

\* ------------------------------------------------------------ PipelineStats
\* PipelineStats.__init__
PipelineStats(pipeline, exist, mod_datetime) ==
    [pipeline |-> pipeline, exist |-> exist, mod_datetime |-> mod_datetime]

\* A dict value that is None (dict.fromkeys(keys, None)).
NoStats == [pipeline |-> [kind |-> "None", s |-> ""], exist |-> FALSE,
            mod_datetime |-> None]

\* PipelineStats.pipeline: str(self._pipeline)
PipelineStats_pipeline(stats) == str(stats.pipeline)

\* datetime.fromtimestamp(t).strftime("%Y-%m-%d-%H:%M:%S"): the text of a time.
strftime(t) == [format |-> "%Y-%m-%d-%H:%M:%S", timestamp |-> t]

\* PipelineStats.mod_datetime: the exception the property raises and the text
\* it returns.  fromtimestamp(None) raises TypeError; None has no property.
PipelineStats_mod_datetime(stats) ==
    CASE stats = NoStats -> [exc |-> "AttributeError", val |-> None]
      [] stats.mod_datetime = None -> [exc |-> "TypeError", val |-> None]
      [] OTHER -> [exc |-> "none", val |-> Some(strftime(stats.mod_datetime[1]))]

\* PlayList._make_pipeline_stats: the exception it raises ("none" when it
\* returns) and the PipelineStats it returns.
_make_pipeline_stats(pipeline) ==
    LET pipeline_path == Path(pipeline)
        st == stat(pipeline_path.s)
    IN  CASE st.st = "oserror" ->
               [exc |-> "OSError", val |-> PipelineStats(pipeline_path, FALSE, None)]
          [] st.st = "file" ->
               [exc |-> "none", val |-> PipelineStats(pipeline_path, TRUE, Some(st.mtime))]
          [] OTHER ->
               [exc |-> "none", val |-> PipelineStats(pipeline_path, FALSE, None)]

\* ------------------------------------------------------------ dict and list
\* dict.pop(key) on a dict that holds key
DictPop(d, key) == [k \in (DOMAIN d) \ {key} |-> d[k]]
\* d[key] = value
DictSet(d, key, value) ==
    [k \in (DOMAIN d) \cup {key} |-> IF k = key THEN value ELSE d[k]]
\* list.remove(x): drops the first occurrence of x
ListRemove(l, x) ==
    LET k == CHOOSE k \in 1 .. Len(l) : l[k] = x /\ \A j \in 1 .. (k - 1) : l[j] # x
    IN  SubSeq(l, 1, k - 1) \o SubSeq(l, k + 1, Len(l))

\* ------------------------------------------------------------ the last call
Call(op, exc, ret) == [op |-> op, exc |-> exc, ret |-> ret]

\* ---------------------------------------------------------------- PlayList
\* PlayList.__contains__
__contains__(item) == str(item) \in DOMAIN _pipeline_stats

\* PlayList.__getitem__
__getitem__(i) ==
    /\ result' = IF 0 <= i /\ i < Len(_pipeline_list)
                 THEN Call("get", "none", Some(_pipeline_list[i + 1]))
                 ELSE Call("get", "ValueError", None)
    /\ UNCHANGED <<_pipeline_list, _pipeline_stats>>

\* A __iter__ that starts the index only if no iteration has set it yet.
__iter__resume ==
    /\ _iter_idx' = IF _iter_idx = None THEN Some(0 - 1) ELSE _iter_idx
    /\ result' = Call("iter", "none", None)

\* PlayList.__iter__
__iter__ ==
    /\ _iter_idx' = Some(0 - 1)
    /\ result' = Call("iter", "none", None)

\* PlayList.__next__; self._iter_idx does not exist before the first __iter__.
__next__ ==
    IF _iter_idx = None
    THEN /\ result' = Call("next", "AttributeError", None)
         /\ UNCHANGED _iter_idx
    ELSE /\ _iter_idx' = Some(_iter_idx[1] + 1)
         /\ result' = IF _iter_idx[1] + 1 < Len(_pipeline_list)
                      THEN Call("next", "none",
                                Some(_pipeline_list[_iter_idx[1] + 2]))
                      ELSE Call("next", "StopIteration", None)

\* PlayList.get_stats that recomputes the stats it returns.
get_stats_refreshing(pipeline) ==
    IF pipeline \in DOMAIN _pipeline_stats
    THEN /\ result' = Call("get_stats", "none",
                           Some(_make_pipeline_stats(pipeline).val))
         /\ _pipeline_stats' =
                DictSet(_pipeline_stats, pipeline,
                        _make_pipeline_stats(pipeline).val)
    ELSE /\ result' = Call("get_stats", "KeyError", None)
         /\ UNCHANGED _pipeline_stats

\* PlayList.get_stats
get_stats(pipeline) ==
    /\ result' = IF pipeline \in DOMAIN _pipeline_stats
                 THEN Call("get_stats", "none", Some(_pipeline_stats[pipeline]))
                 ELSE Call("get_stats", "KeyError", None)
    /\ UNCHANGED _pipeline_stats

\* PlayList.__setitem__
__setitem__(i, value) ==
    IF 0 <= i /\ i < Len(_pipeline_list)
    THEN IF _pipeline_list[i + 1] \notin DOMAIN _pipeline_stats
         THEN \* dict.pop of a missing key raises before anything is changed
              /\ result' = Call("set", "KeyError", None)
              /\ UNCHANGED <<_pipeline_list, _pipeline_stats>>
         ELSE LET popped == DictPop(_pipeline_stats, _pipeline_list[i + 1])
                  made == _make_pipeline_stats(value)
              IN  /\ _pipeline_list' = [_pipeline_list EXCEPT ![i + 1] = value]
                  /\ IF made.exc # "none"
                     THEN /\ _pipeline_stats' = popped
                          /\ result' = Call("set", made.exc, None)
                     ELSE /\ _pipeline_stats' = DictSet(popped, value, made.val)
                          /\ result' = Call("set", "none", None)
    ELSE /\ result' = Call("set", "ValueError", None)
         /\ UNCHANGED <<_pipeline_list, _pipeline_stats>>

\* PlayList.add_pipeline
add_pipeline(pipeline_path) ==
    LET pipeline_str == str(pipeline_path)
    IN  IF __contains__(pipeline_path)
        THEN /\ result' = Call("add", "ValueError", None)
             /\ UNCHANGED <<_pipeline_list, _pipeline_stats>>
        ELSE LET made == _make_pipeline_stats(pipeline_str)
             IN  /\ _pipeline_list' = Append(_pipeline_list, pipeline_str)
                 /\ IF made.exc # "none"
                    THEN /\ result' = Call("add", made.exc, None)
                         /\ UNCHANGED _pipeline_stats
                    ELSE /\ _pipeline_stats' =
                                DictSet(_pipeline_stats, pipeline_str, made.val)
                         /\ result' = Call("add", "none", None)

\* A remove_pipeline that treats a missing pipeline as a silent no-op.
remove_pipeline_lenient(pipeline_path) ==
    LET pipeline_str == str(pipeline_path)
    IN  IF ~__contains__(pipeline_path) \/ pipeline_str \notin Range(_pipeline_list)
        THEN /\ result' = Call("remove", "none", None)
             /\ UNCHANGED <<_pipeline_list, _pipeline_stats>>
        ELSE /\ _pipeline_list' = ListRemove(_pipeline_list, pipeline_str)
             /\ _pipeline_stats' = DictPop(_pipeline_stats, pipeline_str)
             /\ result' = Call("remove", "none", None)

\* PlayList.remove_pipeline
remove_pipeline(pipeline_path) ==
    LET pipeline_str == str(pipeline_path)
    IN  IF ~__contains__(pipeline_path) \/ pipeline_str \notin Range(_pipeline_list)
        THEN \* the explicit raise, or list.remove of a missing value
             /\ result' = Call("remove", "ValueError", None)
             /\ UNCHANGED <<_pipeline_list, _pipeline_stats>>
        ELSE /\ _pipeline_list' = ListRemove(_pipeline_list, pipeline_str)
             /\ _pipeline_stats' = DictPop(_pipeline_stats, pipeline_str)
             /\ result' = Call("remove", "none", None)

\* ------------------------------------------------------- the playlist file
\* The YAML text of playlist.yaml, as the node tree it parses to: an empty
\* document, a plain scalar, a block sequence of strings, or a mapping with one
\* key.  yaml.dump writes a string item quoted whenever the plain text would
\* resolve to another type, so a sequence item always reads back as its str.
YEmpty == [t |-> "empty"]
YScalar(text) == [t |-> "scalar", text |-> text]
YSeq(items) == [t |-> "seq", items |-> items]
YMap(key, node) == [t |-> "map", key |-> key, node |-> node]

\* The Python values yaml.safe_load returns.
PyNone == [t |-> "None"]
PyText(text) == [t |-> "str", text |-> text]
PyList(items) == [t |-> "list", items |-> items]
PyDict(key, value) == [t |-> "dict", key |-> key, value |-> value]

\* Plain scalars the YAML resolver reads as null.
NullTexts == {"", "~", "null"}

\* yaml.safe_load
RECURSIVE safe_load(_)
safe_load(node) ==
    CASE node.t = "empty" -> PyNone
      [] node.t = "scalar" ->
           IF node.text \in NullTexts THEN PyNone ELSE PyText(node.text)
      [] node.t = "seq" -> PyList(node.items)
      [] OTHER -> PyDict(node.key, safe_load(node.node))

\* yaml.dump({"playlist": self._pipeline_list})
yaml_dump(playlist) == YMap("playlist", YSeq(playlist))

\* The characters of a str, which is what iterating over it yields.
Chars(text) ==
    CASE text = "xy" -> <<"x", "y">>
      [] text = "xx" -> <<"x", "x">>
      [] OTHER -> <<text>>

\* The playlist.yaml contents a store is constructed on: no file, or a mapping
\* whose playlist key holds a list of strings.
NoFile == [exists |-> FALSE, doc |-> YEmpty]
File(doc) == [exists |-> TRUE, doc |-> doc]
YamlFile(l) == File(yaml_dump(l))
InitFiles == {NoFile, YamlFile(<<"b.yml", "./a.yml">>)}

\* A _read_playlist_file that opens the file without looking for it first.
_read_playlist_file_strict(file) ==
    IF ~file.exists
    THEN [exc |-> "FileNotFoundError", val |-> PyNone]
    ELSE LET playlist == safe_load(file.doc)
         IN  CASE playlist.t = "dict" /\ playlist.key = "playlist" ->
                    [exc |-> "none", val |-> playlist.value]
               [] playlist.t = "dict" -> [exc |-> "KeyError", val |-> PyNone]
               [] OTHER -> [exc |-> "TypeError", val |-> PyNone]

\* PlayList._read_playlist_file: the exception it raises and the value it returns.
_read_playlist_file(file) ==
    IF ~file.exists
    THEN [exc |-> "none", val |-> PyList(<<>>)]
    ELSE LET playlist == safe_load(file.doc)
         IN  CASE playlist.t = "dict" /\ playlist.key = "playlist" ->
                    [exc |-> "none", val |-> playlist.value]
               [] playlist.t = "dict" -> [exc |-> "KeyError", val |-> PyNone]
               [] OTHER -> [exc |-> "TypeError", val |-> PyNone]

\* PlayList._verify_pipeline_files on the sequence just assigned to
\* _pipeline_list: the exception raised and the _pipeline_stats left behind.
\* The loop computes the stats in list order and stops at the first raise.
_verify_pipeline_files(pipelines) ==
    LET keys == Range(pipelines)
        bad == {k \in 1 .. Len(pipelines) :
                    _make_pipeline_stats(pipelines[k]).exc # "none"}
        first == IF bad = {} THEN Len(pipelines) + 1
                 ELSE CHOOSE k \in bad : \A j \in bad : k <= j
        done == {pipelines[k] : k \in 1 .. (first - 1)}
    IN  IF Cardinality(keys) # Len(pipelines)
        THEN [exc |-> "AssertionError", stats |-> [p \in keys |-> NoStats]]
        ELSE [exc |-> IF bad = {} THEN "none"
                      ELSE _make_pipeline_stats(pipelines[first]).exc,
              stats |-> [p \in keys |-> IF p \in done
                                        THEN _make_pipeline_stats(p).val
                                        ELSE NoStats]]

\* PlayList.load_playlist_file: the exception raised, whether _pipeline_list was
\* assigned before it, and the _pipeline_list and _pipeline_stats it leaves.  A
\* str under the playlist key is assigned as it is: a sequence of characters.
\* (None under the key is assigned too, and dict.fromkeys(None) raises; the
\* model writes that _pipeline_list as the empty sequence.)
load_playlist_file(file) ==
    LET rd == _read_playlist_file(file)
        pipelines == CASE rd.val.t = "list" -> rd.val.items
                       [] rd.val.t = "str" -> Chars(rd.val.text)
                       [] OTHER -> <<>>
        vf == _verify_pipeline_files(pipelines)
    IN  CASE rd.exc # "none" ->
               [exc |-> rd.exc, assigned |-> FALSE, type |-> "none",
                list |-> <<>>, stats |-> [p \in {} |-> NoStats]]
          [] rd.val.t \notin {"list", "str"} ->
               [exc |-> "TypeError", assigned |-> TRUE, type |-> rd.val.t,
                list |-> <<>>, stats |-> [p \in {} |-> NoStats]]
          [] OTHER ->
               [exc |-> vf.exc, assigned |-> TRUE, type |-> rd.val.t,
                list |-> pipelines, stats |-> vf.stats]

\* PlayList.__init__ -> load_playlist_file, when nothing raises: the store a
\* successful construction leaves.
Constructed(file, files) ==
    /\ fs = files
    /\ playlist_file = file
    /\ load_playlist_file(file).exc = "none"
    /\ _pipeline_list = load_playlist_file(file).list
    /\ _pipeline_stats = load_playlist_file(file).stats

Init ==
    /\ \E file \in InitFiles : \E files \in [Paths -> FsStates] :
          Constructed(file, files)
    /\ result = Call("init", "none", None)
    /\ fresh = IF _pipeline_list = <<>> THEN Some(<<>>) ELSE None
    /\ _iter_idx = None
    /\ yielded = None
    /\ NoPlayer

\* ----------------------------------------------------------------- actions
\* History kept for the claims about additions to an empty store.
FreshAfterAdd(s) ==
    IF fresh # None /\ s \notin Range(fresh[1])
    THEN Some(Append(fresh[1], s)) ELSE None

\* An Add that writes the playlist file after every call.
Add_saving(item) ==
    /\ __contains__(item) \/ Len(_pipeline_list) < MaxLen
    /\ add_pipeline(item)
    /\ fresh' = FreshAfterAdd(str(item))
    /\ yielded' = None
    /\ playlist_file' = File(yaml_dump(_pipeline_list'))
    /\ UNCHANGED <<fs, _iter_idx>>
    /\ StoreOnly

\* The list grows to MaxLen at most; a rejected add grows nothing.
Add(item) ==
    /\ __contains__(item) \/ Len(_pipeline_list) < MaxLen
    /\ add_pipeline(item)
    /\ fresh' = FreshAfterAdd(str(item))
    /\ yielded' = None
    /\ UNCHANGED <<fs, playlist_file, _iter_idx>>
    /\ StoreOnly

Remove(item) ==
    /\ remove_pipeline(item)
    /\ fresh' = None
    /\ yielded' = None
    /\ UNCHANGED <<fs, playlist_file, _iter_idx>>
    /\ StoreOnly

Set(i, value) ==
    /\ __setitem__(i, value)
    /\ fresh' = None
    /\ yielded' = None
    /\ UNCHANGED <<fs, playlist_file, _iter_idx>>
    /\ StoreOnly

Get(i) ==
    /\ __getitem__(i)
    /\ UNCHANGED <<fs, playlist_file, fresh, _iter_idx, yielded>>
    /\ StoreOnly

\* item in playlist
Contains(item) ==
    /\ result' = Call("contains", "none", Some(__contains__(item)))
    /\ UNCHANGED <<_pipeline_list, _pipeline_stats, fs, playlist_file, fresh,
                   _iter_idx, yielded>>
    /\ StoreOnly

GetStats(pipeline) ==
    /\ get_stats(pipeline)
    /\ UNCHANGED <<_pipeline_list, fs, playlist_file, fresh, _iter_idx, yielded>>
    /\ StoreOnly

\* playlist.get_stats(pipeline).mod_datetime, for a pipeline that has stats.
ModDatetime(pipeline) ==
    /\ pipeline \in DOMAIN _pipeline_stats
    /\ result' = Call("mod_datetime",
                      PipelineStats_mod_datetime(_pipeline_stats[pipeline]).exc,
                      PipelineStats_mod_datetime(_pipeline_stats[pipeline]).val)
    /\ UNCHANGED <<_pipeline_list, _pipeline_stats, fs, playlist_file, fresh,
                   _iter_idx, yielded>>
    /\ StoreOnly

\* iter(playlist): a new iteration starts, nothing yielded yet.
Iter ==
    /\ __iter__
    /\ yielded' = Some(<<>>)
    /\ UNCHANGED <<_pipeline_list, _pipeline_stats, fs, playlist_file, fresh>>
    /\ StoreOnly

\* next(playlist); the index is followed up to MaxLen.
NextItem ==
    /\ IF _iter_idx = None THEN TRUE ELSE _iter_idx[1] < MaxLen
    /\ __next__
    /\ yielded' = IF yielded # None /\ result'.exc = "none"
                  THEN Some(Append(yielded[1], result'.ret[1])) ELSE yielded
    /\ UNCHANGED <<_pipeline_list, _pipeline_stats, fs, playlist_file, fresh>>
    /\ StoreOnly

\* The environment: a pipeline file is created or modified, deleted, or becomes
\* impossible to stat.
FsChange(p, st) ==
    /\ fs[p] # st
    /\ fs' = [fs EXCEPT ![p] = st]
    /\ result' = Call("fs", "none", None)
    /\ UNCHANGED <<_pipeline_list, _pipeline_stats, playlist_file, fresh,
                   _iter_idx, yielded>>
    /\ StoreOnly

Next ==
    \/ \E item \in Items : Add(item)
    \/ \E item \in Items : Remove(item)
    \/ \E i \in Indices : \E value \in Strs : Set(i, value)
    \/ \E i \in Indices : Get(i)
    \/ \E p \in Paths : \E st \in FsStates : FsChange(p, st)

Spec == Init /\ [][Next]_vars

\* The behaviours in which os.stat never fails: no path is ever un-stat-able.
InitStatOk == Init /\ \A p \in Paths : fs[p] # FsOSError

NextStatOk ==
    \/ \E item \in Items : Add(item)
    \/ \E item \in Items : Remove(item)
    \/ \E i \in Indices : \E value \in Strs : Set(i, value)
    \/ \E i \in Indices : Get(i)
    \/ \E p \in Paths : \E st \in FsStates \ {FsOSError} : FsChange(p, st)

SpecStatOk == InitStatOk /\ [][NextStatOk]_vars

\* ------------------------------------------------------------ persistence
\* A constructor that raised has produced no store, and nothing but a new
\* construction follows it.
HasStore == ~(result.op = "init" /\ result.exc # "none")

\* A store whose _pipeline_list is the str found under the playlist key; the
\* model follows such a store no further than its construction.
StrStore == result.op = "init" /\ result.exc = "none" /\ result.ret # None

\* Between the open() and the yaml.dump() of a save nothing else runs.
Saving == result.op = "save_open"

Usable == HasStore /\ ~StrStore /\ ~Saving

\* PlayList.save_playlist_file, first half: open(playlist_path, "w") creates the
\* file or truncates it to nothing.
SaveOpen ==
    /\ Usable
    /\ playlist_file' = File(YEmpty)
    /\ result' = Call("save_open", "none", None)
    /\ UNCHANGED <<_pipeline_list, _pipeline_stats, fs, fresh, _iter_idx, yielded>>
    /\ StoreOnly

\* PlayList.save_playlist_file, second half: yaml.dump writes the document and
\* the with block closes the file.
SaveDump ==
    /\ Saving
    /\ playlist_file' = File(yaml_dump(_pipeline_list))
    /\ result' = Call("save", "none", None)
    /\ UNCHANGED <<_pipeline_list, _pipeline_stats, fs, fresh, _iter_idx, yielded>>
    /\ StoreOnly

\* PlayList.save_playlist_file, second half, when the write raises (the disk is
\* full) or the process is stopped: the file stays as open() left it.
SaveFail ==
    /\ Saving
    /\ result' = Call("save", "OSError", None)
    /\ UNCHANGED <<_pipeline_list, _pipeline_stats, fs, playlist_file, fresh,
                   _iter_idx, yielded>>
    /\ StoreOnly

\* A load that keeps a store that already has entries as it is.
Load_keeping ==
    /\ Usable
    /\ LET out == load_playlist_file(playlist_file)
       IN  /\ result' = Call("load", out.exc, None)
           /\ IF out.assigned /\ _pipeline_list = <<>>
              THEN /\ _pipeline_list' = out.list
                   /\ _pipeline_stats' = out.stats
              ELSE UNCHANGED <<_pipeline_list, _pipeline_stats>>
    /\ fresh' = None
    /\ yielded' = None
    /\ UNCHANGED <<fs, playlist_file, _iter_idx>>
    /\ StoreOnly

\* PlayList.load_playlist_file called on a store that exists.
Load ==
    /\ Usable
    /\ LET out == load_playlist_file(playlist_file)
       IN  /\ result' = Call("load", out.exc, None)
           /\ IF out.assigned
              THEN /\ _pipeline_list' = out.list
                   /\ _pipeline_stats' = out.stats
              ELSE UNCHANGED <<_pipeline_list, _pipeline_stats>>
    /\ fresh' = None
    /\ yielded' = None
    /\ UNCHANGED <<fs, playlist_file, _iter_idx>>
    /\ StoreOnly

\* PlayList(home_path): a new store constructed on the file as it is now, in
\* place of the one there was.
Construct ==
    /\ ~Saving
    /\ LET out == load_playlist_file(playlist_file)
       IN  IF out.exc = "none"
           THEN /\ _pipeline_list' = out.list
                /\ _pipeline_stats' = out.stats
                /\ result' = Call("init", "none",
                                  IF out.type = "str" THEN Some("str") ELSE None)
                /\ fresh' = IF out.list = <<>> THEN Some(<<>>) ELSE None
           ELSE /\ _pipeline_list' = <<>>
                /\ _pipeline_stats' = [p \in {} |-> NoStats]
                /\ result' = Call("init", out.exc, None)
                /\ fresh' = None
    /\ _iter_idx' = None
    /\ yielded' = None
    /\ UNCHANGED <<fs, playlist_file>>
    /\ StoreOnly

\* The files a store may find at its path: none, a saved playlist, a playlist
\* naming one file twice, an empty file, a mapping without the playlist key, and
\* a playlist key holding null or a plain string.
PersistFiles ==
    {NoFile, YamlFile(<<"b.yml", "./a.yml">>), YamlFile(<<"b.yml", "b.yml">>),
     File(YEmpty), File(YMap("pipelines", YSeq(<<"b.yml">>))),
     File(YMap("playlist", YScalar("null"))),
     File(YMap("playlist", YScalar("xy"))),
     File(YMap("playlist", YScalar("xx")))}

\* a.yml is a file; b.yml is absent, a file, or impossible to stat.
PersistFs == {files \in [Paths -> FsStates] : files["a.yml"].st = "file"}

PersistItems == {PyStr("b.yml"), Path("./a.yml")}
PersistValues == {"b.yml"}

PersistInit ==
    /\ \E file \in PersistFiles : \E files \in PersistFs :
          /\ fs = files
          /\ playlist_file = file
          /\ LET out == load_playlist_file(file)
             IN  IF out.exc = "none"
                 THEN /\ _pipeline_list = out.list
                      /\ _pipeline_stats = out.stats
                      /\ result = Call("init", "none",
                                  IF out.type = "str" THEN Some("str") ELSE None)
                 ELSE /\ _pipeline_list = <<>>
                      /\ _pipeline_stats = [p \in {} |-> NoStats]
                      /\ result = Call("init", out.exc, None)
    /\ fresh = IF _pipeline_list = <<>> /\ result.exc = "none"
               THEN Some(<<>>) ELSE None
    /\ _iter_idx = None
    /\ yielded = None
    /\ NoPlayer

PersistNext ==
    \/ \E item \in PersistItems : Usable /\ Add(item)
    \/ \E item \in PersistItems : Usable /\ Remove(item)
    \/ \E i \in Indices : \E value \in PersistValues : Usable /\ Set(i, value)
    \/ SaveOpen
    \/ SaveDump
    \/ SaveFail
    \/ Load
    \/ Construct

SpecPersist == PersistInit /\ [][PersistNext]_vars

\* -------------------------------------------------------------- iteration
\* Every operation of the store, on an empty home directory whose pipeline
\* files all exist; the list grows to MaxIterLen.
MaxIterLen == 2
IterItems == {PyStr("a.yml"), PyStr("b.yml")}
IterValues == {"b.yml"}

IterInit ==
    /\ Constructed(NoFile, [p \in Paths |-> FsFile(1)])
    /\ result = Call("init", "none", None)
    /\ fresh = Some(<<>>)
    /\ _iter_idx = None
    /\ yielded = None
    /\ NoPlayer

IterNext ==
    \/ \E item \in IterItems :
          Usable /\ Len(_pipeline_list) < MaxIterLen /\ Add(item)
    \/ \E item \in IterItems : Usable /\ Remove(item)
    \/ \E i \in Indices : \E value \in IterValues : Usable /\ Set(i, value)
    \/ \E i \in Indices : Usable /\ Get(i)
    \/ \E item \in IterItems : Usable /\ Contains(item)
    \/ \E item \in IterItems : Usable /\ GetStats(str(item))
    \/ Usable /\ Iter
    \/ Usable /\ NextItem
    \/ SaveOpen
    \/ SaveDump
    \/ Load
    \/ Construct

SpecIter == IterInit /\ [][IterNext]_vars

\* ------------------------------------------------------------- the player
\* The fields of the Player a handler reads and writes; a handler is modelled
\* by the fields it leaves, so that handlers compose as the calls in the code.
Self ==
    [frames |-> frames, frame_idx |-> frame_idx, zoom_idx |-> zoom_idx,
     is_output_playback |-> is_output_playback,
     is_pipeline_running |-> is_pipeline_running, state |-> state,
     _pipeline |-> _pipeline, tk_scale |-> tk_scale]

Becomes(self) ==
    /\ frames' = self.frames
    /\ frame_idx' = self.frame_idx
    /\ zoom_idx' = self.zoom_idx
    /\ is_output_playback' = self.is_output_playback
    /\ is_pipeline_running' = self.is_pipeline_running
    /\ state' = self.state
    /\ _pipeline' = self._pipeline
    /\ tk_scale' = self.tk_scale

\* Python's round() of a value given in halves: a half goes to the even side.
Round(h) ==
    IF h % 2 = 0 THEN h \div 2
    ELSE IF ((h - 1) \div 2) % 2 = 0 THEN (h - 1) \div 2 ELSE (h + 1) \div 2

\* The slider keeps its value between its two ends, from_ = 1 and to,
\* whichever of them is the smaller.
Clamp(h, to) ==
    LET lo == IF to < 2 THEN to ELSE 2
        hi == IF to < 2 THEN 2 ELSE to
    IN  IF h < lo THEN lo ELSE IF h > hi THEN hi ELSE h

\* Player._sync_slider_to_frame, the command of the slider
_sync_slider_to_frame(self, val) == [self EXCEPT !.frame_idx = Round(val) - 1]

\* self.tk_scale.set(v): the slider takes the value and runs its command.
tk_scale_set(self, v) ==
    LET value == Clamp(2 * v, self.tk_scale.to)
    IN  _sync_slider_to_frame([self EXCEPT !.tk_scale.value = value], value)

\* Player._update_slider_and_show_frame
_update_slider_and_show_frame(self) == tk_scale_set(self, self.frame_idx + 1)

\* Player._backward_one_frame: whether it moved, and the fields it leaves
_backward_one_frame(self) ==
    IF self.frame_idx > 0
    THEN [ok |-> TRUE,
          self |-> _update_slider_and_show_frame(
                       [self EXCEPT !.frame_idx = self.frame_idx - 1])]
    ELSE [ok |-> FALSE, self |-> self]

\* Player._forward_one_frame
_forward_one_frame(self) ==
    IF self.frame_idx + 1 < Len(self.frames)
    THEN [ok |-> TRUE,
          self |-> _update_slider_and_show_frame(
                       [self EXCEPT !.frame_idx = self.frame_idx + 1])]
    ELSE [ok |-> FALSE, self |-> self]

\* Player.set_player_state_to_play / set_player_state_to_stop
set_player_state_to_play(self) == [self EXCEPT !.state = "play"]
set_player_state_to_stop(self) == [self EXCEPT !.state = "stop"]

\* A stop_playback that leaves the player in state "play".
stop_playback_playing(self) == [self EXCEPT !.is_output_playback = FALSE]

\* Player.stop_playback
stop_playback(self) ==
    set_player_state_to_stop([self EXCEPT !.is_output_playback = FALSE])

\* A do_playback that shows the last frame again and again.
do_playback_looping(self) ==
    IF _forward_one_frame(self).ok
    THEN tk_scale_set(_forward_one_frame(self).self,
                      _forward_one_frame(self).self.frame_idx + 1)
    ELSE self

\* Player.do_playback
do_playback(self) ==
    IF _forward_one_frame(self).ok
    THEN tk_scale_set(_forward_one_frame(self).self,
                      _forward_one_frame(self).self.frame_idx + 1)
    ELSE stop_playback(self)

\* Player.start_playback
start_playback(self) ==
    LET playing == [self EXCEPT !.is_output_playback = TRUE]
        rewound == IF playing.frame_idx + 1 >= Len(playing.frames)
                   THEN _update_slider_and_show_frame(
                            [playing EXCEPT !.frame_idx = 0])
                   ELSE playing
    IN  do_playback(set_player_state_to_play(rewound))

\* Player.stop_pipeline_run
stop_pipeline_run(self) == [self EXCEPT !._pipeline = Some([terminate |-> TRUE])]

\* A play/stop button that starts the playback while the pipeline runs.
btn_play_stop_press_eager(self) ==
    IF self.is_output_playback THEN stop_playback(self) ELSE start_playback(self)

\* Player.btn_play_stop_press
btn_play_stop_press(self) ==
    IF self.is_pipeline_running THEN stop_pipeline_run(self)
    ELSE IF self.is_output_playback THEN stop_playback(self)
    ELSE start_playback(self)

\* The test that opens the four frame buttons' handlers.
Busy(self) == self.is_pipeline_running \/ self.is_output_playback

\* Player.btn_first_frame_press .. btn_backward_press
btn_first_frame_press(self) ==
    IF Busy(self) THEN self
    ELSE _update_slider_and_show_frame([self EXCEPT !.frame_idx = 0])

btn_last_frame_press(self) ==
    IF Busy(self) THEN self
    ELSE _update_slider_and_show_frame(
             [self EXCEPT !.frame_idx = Len(self.frames) - 1])

btn_forward_press(self) ==
    IF Busy(self) THEN self ELSE _forward_one_frame(self).self

btn_backward_press(self) ==
    IF Busy(self) THEN self ELSE _backward_one_frame(self).self

\* A zoom-in without the test for the largest zoom.
_zoom_in_unchecked(self) == [self EXCEPT !.zoom_idx = self.zoom_idx + 1]

\* Player._zoom_in / _zoom_out / _zoom_reset
_zoom_in(self) ==
    IF self.zoom_idx + 1 < Len(ZOOMS)
    THEN [self EXCEPT !.zoom_idx = self.zoom_idx + 1] ELSE self

_zoom_out(self) ==
    IF self.zoom_idx > 0
    THEN [self EXCEPT !.zoom_idx = self.zoom_idx - 1] ELSE self

_zoom_reset(self) == [self EXCEPT !.zoom_idx = ZOOM_DEFAULT_IDX]

\* Player.on_keypress, given the modifier and the key of the event
on_keypress(self, mod, key) ==
    IF mod \in {"ctrl", "ctrl-shift"}
    THEN CASE key = "z" -> _zoom_reset(self)
           [] key = "+" -> _zoom_in(self)
           [] key = "-" -> _zoom_out(self)
           [] OTHER -> self
    ELSE self

\* Player._enable_slider: the slider appears with len(frames) as its upper end,
\* and the frame index follows the value the slider has.
_enable_slider(self) ==
    _sync_slider_to_frame(
        [self EXCEPT !.tk_scale.shown = TRUE,
                     !.tk_scale.to = 2 * Len(self.frames)],
        self.tk_scale.value)

\* Player.run_pipeline_start
run_pipeline_start(self) ==
    [set_player_state_to_play(self) EXCEPT
        !._pipeline = Some([terminate |-> FALSE]),
        !.is_pipeline_running = TRUE]

\* A run_pipeline_end that leaves the pipeline marked as running.
run_pipeline_end_running(self) ==
    set_player_state_to_stop(_enable_slider(self))

\* Player.run_pipeline_end
run_pipeline_end(self) ==
    set_player_state_to_stop(
        _enable_slider([self EXCEPT !.is_pipeline_running = FALSE]))

\* Player.run_pipeline_one_iteration of a pipeline that reads an input and
\* ends in output.screen.  When the input reports pipeline_end the pipeline is
\* told to terminate and output.screen is skipped; otherwise one frame is
\* appended, and num_iter frames end the run.
run_pipeline_one_iteration(self, pipeline_end) ==
    IF pipeline_end
    THEN [self EXCEPT !.is_pipeline_running = TRUE,
                      !._pipeline = Some([terminate |-> TRUE])]
    ELSE [self EXCEPT
            !.is_pipeline_running = TRUE,
            !.frames = Append(self.frames, Len(self.frames) + 1),
            !.frame_idx = self.frame_idx + 1,
            !._pipeline = IF num_iter # 0 /\ self.frame_idx + 2 >= num_iter
                          THEN Some([terminate |-> TRUE]) ELSE self._pipeline]

\* Player.timer_function, up to the rescheduling of itself
timer_function(self, pipeline_end) ==
    IF self.state = "play"
    THEN IF self.is_output_playback THEN do_playback(self)
         ELSE IF ~self.is_pipeline_running THEN run_pipeline_start(self)
         ELSE IF self._pipeline[1].terminate THEN run_pipeline_end(self)
         ELSE run_pipeline_one_iteration(self, pipeline_end)
    ELSE self

\* The pipeline captures MaxFrames frames at most.
MaxFrames == 3
NumIters == {0, 2}
ScaleInitial == {0, 2}
KeyModifiers == {"", "shift", "ctrl", "ctrl-shift"}
Keys == {"z", "+", "-", "q"}

\* The tick of the timer would run one more iteration that captures a frame.
Capturing(pipeline_end) ==
    /\ state = "play" /\ ~is_output_playback /\ is_pipeline_running
    /\ ~_pipeline[1].terminate
    /\ ~pipeline_end

\* One run of timer_function: Player.run calls it first, the timer after that.
Tick(pipeline_end) ==
    /\ Capturing(pipeline_end) => Len(frames) < MaxFrames
    /\ Becomes(timer_function(Self, pipeline_end))
    /\ bkgd_job' = Some("after")
    /\ ticks' = IF ticks # None /\ state = "play" /\ is_output_playback
                THEN Some(ticks[1] + 1) ELSE ticks
    /\ UNCHANGED <<PlayListVars, outer, num_iter, _callback>>

\* The user acts once the Tk event loop runs, and ends the count of ticks.
UserDoes(self) ==
    /\ bkgd_job # None
    /\ Becomes(self)
    /\ UNCHANGED <<PlayListVars, outer, bkgd_job, num_iter, _callback>>

PressPlayStop ==
    /\ UserDoes(btn_play_stop_press(Self))
    /\ ticks' = IF is_output_playback' THEN Some(0) ELSE None

PressFirst == UserDoes(btn_first_frame_press(Self)) /\ ticks' = None
PressLast == UserDoes(btn_last_frame_press(Self)) /\ ticks' = None
PressForward == UserDoes(btn_forward_press(Self)) /\ ticks' = None
PressBackward == UserDoes(btn_backward_press(Self)) /\ ticks' = None
PressZoomIn == UserDoes(_zoom_in(Self)) /\ ticks' = None
PressZoomOut == UserDoes(_zoom_out(Self)) /\ ticks' = None
KeyPress(mod, key) == UserDoes(on_keypress(Self, mod, key)) /\ ticks' = None

\* The user drags the slider, which is on screen, to a value from 1 to
\* len(frames).
SliderMove(h) ==
    /\ tk_scale.shown
    /\ 2 <= h /\ h <= 2 * Len(frames)
    /\ UserDoes(_sync_slider_to_frame([Self EXCEPT !.tk_scale.value = h], h))
    /\ ticks' = None

PlayerInit ==
    /\ Constructed(NoFile, [p \in Paths |-> FsFile(1)])
    /\ result = Call("init", "none", None)
    /\ fresh = Some(<<>>)
    /\ _iter_idx = None
    /\ yielded = None
    /\ outer = None
    /\ _callback = <<>>
    /\ \E n \in NumIters : \E v \in ScaleInitial :
          PlayerConstructed(n, v)

PlayerNext ==
    \/ \E pipeline_end \in BOOLEAN : Tick(pipeline_end)
    \/ PressPlayStop
    \/ PressFirst
    \/ PressLast
    \/ PressForward
    \/ PressBackward
    \/ PressZoomIn
    \/ PressZoomOut
    \/ \E mod \in KeyModifiers : \E key \in Keys : KeyPress(mod, key)
    \/ \E h \in 2 .. (2 * (MaxFrames + 1)) : SliderMove(h)

SpecPlayer == PlayerInit /\ [][PlayerNext]_vars

\* ------------------------------------------------------- the playlist view
\* A register_callback that stores a callback under any operation name.
register_callback_lenient(callbacks, operation, player_callback) ==
    [exc |-> "none", _callback |-> DictSet(callbacks, operation, player_callback)]

\* SingleColumnPlayListView.register_callback: the exception it raises and the
\* callbacks it leaves
register_callback(callbacks, operation, player_callback) ==
    IF operation \in Range(OP_LIST)
    THEN [exc |-> "none",
          _callback |-> DictSet(callbacks, operation, player_callback)]
    ELSE [exc |-> "ValueError", _callback |-> callbacks]

Operations == {"add", "delete", "play", "Add", "edit", ""}
Callbacks == {"on_add_pipeline", "on_delete_pipeline", "on_play_pipeline"}

\* The view is all that acts.
ViewOnly == UNCHANGED <<_pipeline_list, _pipeline_stats, fs, playlist_file,
                        fresh, _iter_idx, yielded, outer, PlayerVars>>

RegisterCallback(operation, player_callback) ==
    /\ _callback' =
          register_callback(_callback, operation, player_callback)._callback
    /\ result' = Call("register_callback",
                      register_callback(_callback, operation, player_callback).exc,
                      Some(operation))
    /\ ViewOnly

\* SingleColumnPlayListView.btn_add_press calls the callback stored under "add".
BtnAddPress ==
    /\ result' = IF "add" \in DOMAIN _callback
                 THEN Call("btn_add_press", "none", Some(_callback["add"]))
                 ELSE Call("btn_add_press", "KeyError", Some("add"))
    /\ UNCHANGED _callback
    /\ ViewOnly

\* SingleColumnPlayListView.__init__: no callback is registered.
ViewInit ==
    /\ Constructed(NoFile, [p \in Paths |-> FsFile(1)])
    /\ result = Call("init", "none", None)
    /\ fresh = Some(<<>>)
    /\ _iter_idx = None
    /\ yielded = None
    /\ NoPlayer

ViewNext ==
    \/ \E operation \in Operations : \E player_callback \in Callbacks :
          RegisterCallback(operation, player_callback)
    \/ BtnAddPress

SpecView == ViewInit /\ [][ViewNext]_vars

\* ------------------------------------------------------- nested iteration
\* Two loops over one store: `for a in playlist: for b in playlist: ...` and
\* every other interleaving of their __next__ calls.  The list is built first
\* and is not touched while a loop is under way.
NestedItems == {PyStr("a.yml"), PyStr("b.yml"), PyStr("./a.yml")}

\* What the first loop has been given (got), how much of it before the second
\* loop started (at), and whether the first loop has seen StopIteration.
Outer(got, at, stopped) == Some([got |-> got, at |-> at, stopped |-> stopped])

\* A second loop that starts with a cursor of its own.
IterNested_own ==
    /\ yielded # None /\ outer = None
    /\ result' = Call("iter", "none", None)
    /\ outer' = Outer(yielded[1], Len(yielded[1]), FALSE)
    /\ yielded' = Some(<<>>)
    /\ UNCHANGED <<_pipeline_list, _pipeline_stats, fs, playlist_file, fresh,
                   _iter_idx, PlayerVars, _callback>>

\* iter(playlist) for a second loop while the first one is under way.
IterNested ==
    /\ yielded # None /\ outer = None
    /\ __iter__
    /\ outer' = Outer(yielded[1], Len(yielded[1]), FALSE)
    /\ yielded' = Some(<<>>)
    /\ UNCHANGED <<_pipeline_list, _pipeline_stats, fs, playlist_file, fresh,
                   PlayerVars, _callback>>

\* next(playlist) called by the first loop after the second one started.
NextOuter ==
    /\ outer # None
    /\ ~outer[1].stopped
    /\ _iter_idx[1] < MaxLen
    /\ __next__
    /\ outer' = IF result'.exc = "none"
                THEN Outer(Append(outer[1].got, result'.ret[1]), outer[1].at, FALSE)
                ELSE Outer(outer[1].got, outer[1].at, TRUE)
    /\ UNCHANGED <<_pipeline_list, _pipeline_stats, fs, playlist_file, fresh,
                   yielded, PlayerVars, _callback>>

NestedNext ==
    \/ \E item \in NestedItems : yielded = None /\ Add(item)
    \/ outer = None /\ Iter
    \/ (outer = None \/ result.exc # "StopIteration") /\ NextItem
    \/ IterNested
    \/ NextOuter

SpecNested == IterInit /\ [][NestedNext]_vars

\* ------------------------------------------------------------ stats cache
\* One store from its construction on, its playlist file as it was, while
\* b.yml comes and goes on disk; the list grows to MaxStatsLen.
MaxStatsLen == 2
StatsItems == {PyStr("./a.yml"), PyStr("b.yml")}
StatsValues == {"b.yml"}

StatsInit ==
    /\ \E file \in InitFiles : \E files \in PersistFs : Constructed(file, files)
    /\ result = Call("init", "none", None)
    /\ fresh = IF _pipeline_list = <<>> THEN Some(<<>>) ELSE None
    /\ _iter_idx = None
    /\ yielded = None
    /\ NoPlayer

StatsNext ==
    \/ \E item \in StatsItems : Len(_pipeline_list) < MaxStatsLen /\ Add(item)
    \/ \E item \in StatsItems : Remove(item)
    \/ \E i \in Indices : \E value \in StatsValues : Set(i, value)
    \/ \E i \in Indices : Get(i)
    \/ \E item \in StatsItems : Contains(item)
    \/ \E item \in StatsItems : GetStats(str(item))
    \/ \E item \in StatsItems : ModDatetime(str(item))
    \/ Iter
    \/ NextItem
    \/ Load
    \/ \E st \in FsStates : FsChange("b.yml", st)

SpecStats == StatsInit /\ [][StatsNext]_vars

\* ------------------------------------------------------------------ claims
InRange(i) == 0 <= i /\ i < Len(_pipeline_list)
Raised == result'.exc # "none"
StoreUnchanged == UNCHANGED <<_pipeline_list, _pipeline_stats>>

\* C1: in every reachable state the ordered pipeline sequence holds no two
\* equal entries.
C1_NoDuplicateEntries ==
    \A i, j \in 1 .. Len(_pipeline_list) :
        i # j => _pipeline_list[i] # _pipeline_list[j]

\* C2: in every reachable state the keys of the stats cache are exactly the
\* entries of the ordered sequence, and the two collections have the same size.
C2_StatsMatchSequence ==
    /\ DOMAIN _pipeline_stats = Range(_pipeline_list)
    /\ Cardinality(DOMAIN _pipeline_stats) = Len(_pipeline_list)

\* C3: every mutation is all-or-nothing: a call of add_pipeline, remove_pipeline
\* or playlist[i] = value that raises leaves sequence and cache as they were, and
\* one that returns has updated both (the new entry is in the sequence and has
\* stats; the removed entry has lost its stats and one place in the sequence).
C3_AllOrNothing ==
    [][ /\ (result'.op \in {"add", "remove", "set"} /\ Raised) => StoreUnchanged
        /\ \A item \in Items : (Add(item) /\ ~Raised) =>
              /\ _pipeline_list' = Append(_pipeline_list, str(item))
              /\ str(item) \in DOMAIN _pipeline_stats'
        /\ \A item \in Items : (Remove(item) /\ ~Raised) =>
              /\ Len(_pipeline_list') = Len(_pipeline_list) - 1
              /\ str(item) \notin DOMAIN _pipeline_stats'
        /\ \A i \in Indices : \A value \in Strs : (Set(i, value) /\ ~Raised) =>
              /\ _pipeline_list'[i + 1] = value
              /\ value \in DOMAIN _pipeline_stats'
      ]_vars

\* C4: add_pipeline(r) with r (by its string form) already in the store raises,
\* and leaves the sequence, its length and the stats cache as they were.
C4_AddExistingRejected ==
    [][ \A item \in Items :
          (Add(item) /\ str(item) \in Range(_pipeline_list)) =>
              (result'.exc = "ValueError" /\ StoreUnchanged)
      ]_vars

\* C5: add_pipeline(r) with r not in the store yields the old sequence followed
\* by str(r), and a PipelineStats for r is stored.
C5_AddAppends ==
    [][ \A item \in Items :
          (Add(item) /\ str(item) \notin Range(_pipeline_list)) =>
              /\ _pipeline_list' = Append(_pipeline_list, str(item))
              /\ str(item) \in DOMAIN _pipeline_stats'
      ]_vars

\* C6: after add_pipeline has been called once for each of a sequence of
\* pairwise distinct references on an empty store, `r in playlist` holds exactly
\* for the added references and the number of entries is the number of calls.
C6_AddedAreContained ==
    fresh # None =>
        /\ \A item \in Items : __contains__(item) <=> str(item) \in Range(fresh[1])
        /\ Len(_pipeline_list) = Len(fresh[1])
        /\ Cardinality(DOMAIN _pipeline_stats) = Len(fresh[1])

C8_RemoveExisting ==
    [][ \A item \in Items :
          (Remove(item) /\ str(item) \in Range(_pipeline_list)) =>
              /\ str(item) \notin DOMAIN _pipeline_stats'
              /\ str(item) \notin Range(_pipeline_list')
              /\ Len(_pipeline_list') = Len(_pipeline_list) - 1
              /\ _pipeline_list' = SelectSeq(_pipeline_list, LAMBDA x : x # str(item))
              /\ DOMAIN _pipeline_stats' = (DOMAIN _pipeline_stats) \ {str(item)}
      ]_vars

\* C9: playlist[i] and playlist[i] = v raise exactly when i is outside
\* [0, length); a call that raised leaves sequence and cache as they were; a get
\* in range returns the i-th entry.
C9_IndexErrors ==
    [][ /\ \A i \in Indices : Get(i) =>
              /\ Raised <=> ~InRange(i)
              /\ InRange(i) => result'.ret = Some(_pipeline_list[i + 1])
              /\ StoreUnchanged
        /\ \A i \in Indices : \A value \in Strs : Set(i, value) =>
              /\ Raised <=> ~InRange(i)
              /\ Raised => StoreUnchanged
      ]_vars

\* C10: playlist[i] = v with i in [0, length) succeeds, also when v occurs at
\* another index; it replaces position i alone, keeps the length, stores a
\* freshly computed PipelineStats for v and discards the stats of the value it
\* replaced.
C10_SetReplaces ==
    [][ \A i \in Indices : \A value \in Strs :
          (Set(i, value) /\ InRange(i)) =>
              /\ ~Raised
              /\ _pipeline_list' = [_pipeline_list EXCEPT ![i + 1] = value]
              /\ value \in DOMAIN _pipeline_stats'
              /\ _pipeline_stats'[value] = _make_pipeline_stats(value).val
              /\ _pipeline_list[i + 1] # value =>
                     _pipeline_list[i + 1] \notin DOMAIN _pipeline_stats'
      ]_vars

\* ------------------------------------------------- claims about persistence
\* The file holds a mapping whose playlist key holds a sequence of strings.
WellFormed(file) ==
    /\ file.exists
    /\ file.doc.t = "map"
    /\ file.doc.key = "playlist"
    /\ file.doc.node.t = "seq"

\* The file exists and is a mapping without the playlist key, or its playlist
\* key holds something that is not a sequence (a plain string, null).
WrongShape(file) ==
    /\ file.exists
    /\ file.doc.t = "map"
    /\ file.doc.key # "playlist" \/ file.doc.node.t # "seq"

\* The last call constructed a store or reloaded one.
JustLoaded == result.op \in {"init", "load"}

\* C11: save_playlist_file() followed at once by the construction of a fresh
\* PlayList on the same path succeeds, and the fresh store holds the entries of
\* the saved one in the same order, whatever state the saved store was in.
C11_RoundTrip ==
    [][ (result = Call("save", "none", None) /\ Construct) =>
            /\ result'.exc = "none"
            /\ _pipeline_list' = _pipeline_list ]_vars

\* C12: no step of a save leaves the file on disk as anything but what it held
\* before the step or the complete document of the store being saved.
C12_NoPartialWrite ==
    [][ playlist_file' # playlist_file =>
            playlist_file' = File(yaml_dump(_pipeline_list)) ]_vars

C15_LoadWellFormed ==
    (JustLoaded /\ WellFormed(playlist_file)) =>
        /\ result.exc = "none"
        /\ _pipeline_list = playlist_file.doc.node.items
        /\ \A r \in Range(_pipeline_list) :
              r \in DOMAIN _pipeline_stats /\ _pipeline_stats[r] # NoStats

\* C16: a construction or a load that finds a file of the wrong shape (no
\* playlist key, or a playlist value that is no sequence) raises, so that no
\* store is loaded from it.
C16_WrongShapeRejected ==
    (JustLoaded /\ WrongShape(playlist_file)) =>
        result.exc \in {"KeyError", "TypeError", "AssertionError"}

\* C13: the file on disk changes only in a step of save_playlist_file; a
\* construction, load, add_pipeline, remove_pipeline, get, set, contains,
\* __iter__, __next__ or get_stats leaves it as it was.
C13_OnlySaveWrites ==
    [][ playlist_file' # playlist_file => (SaveOpen \/ SaveDump) ]_vars

C13_Witness ==
    /\ result = Call("add", "none", None)
    /\ playlist_file.exists
    /\ load_playlist_file(playlist_file).list # _pipeline_list

\* ---------------------------------------------------- claims about iteration
\* C17: while nothing mutates the store, the values an iteration has yielded
\* since its __iter__ are the first entries of the sequence in order, and when
\* __next__ raises StopIteration they are the whole sequence; this holds for
\* every __iter__, however far the iteration before it got.
C17_IterationInOrder ==
    yielded # None =>
        /\ Len(yielded[1]) <= Len(_pipeline_list)
        /\ yielded[1] = SubSeq(_pipeline_list, 1, Len(yielded[1]))
        /\ (result.op = "next" /\ result.exc = "StopIteration") =>
              yielded[1] = _pipeline_list
        /\ result.op = "iter" => yielded[1] = <<>>

C17_Witness ==
    /\ result.op = "next"
    /\ result.exc = "StopIteration"
    /\ yielded = Some(_pipeline_list)
    /\ Len(_pipeline_list) = 2
    /\ _pipeline_list[1] # _pipeline_list[2]

\* ------------------------------------------------ claims about cached stats
\* C18: get_stats(r) changes neither sequence nor cache; when r is an entry of
\* the store it returns the cached PipelineStats, whose pipeline is r, and when
\* r is no entry it raises KeyError.
C18_GetStats ==
    [][ result'.op = "get_stats" =>
          \A item \in StatsItems : GetStats(str(item)) =>
              /\ StoreUnchanged
              /\ IF str(item) \in Range(_pipeline_list)
                 THEN /\ result'.exc = "none"
                      /\ result'.ret = Some(_pipeline_stats[str(item)])
                      /\ PipelineStats_pipeline(result'.ret[1]) = str(item)
                 ELSE result'.exc = "KeyError" ]_vars

\* C19: the stats cached for a reference change only in a load, or in a
\* playlist[i] = value or add_pipeline that registers that very reference;
\* no read (get, contains, __iter__, __next__, get_stats, mod_datetime), no
\* call on another reference and no change on disk alters them.
C19_StatsOnlyOnRegistration ==
    [][ \A r \in (DOMAIN _pipeline_stats) \cap (DOMAIN _pipeline_stats') :
          _pipeline_stats'[r] # _pipeline_stats[r] =>
              \/ Load
              \/ result'.op = "set" /\ \E i \in Indices : Set(i, r)
              \/ result'.op = "add" /\ Add(PyStr(r)) ]_vars

C19_Witness ==
    /\ result.op = "get_stats"
    /\ result.exc = "none"
    /\ "b.yml" \in DOMAIN _pipeline_stats
    /\ result.ret = Some(_pipeline_stats["b.yml"])
    /\ _pipeline_stats["b.yml"].exist
    /\ fs["b.yml"] = FsAbsent

\* C20: every PipelineStats in the cache has a modification time exactly when
\* its exist is true; the exist an add_pipeline stores is whether the file is
\* there at that moment; and reading mod_datetime of stats whose exist is false
\* raises nothing and returns None.
C20_ModTimeIffExist ==
    [][ /\ \A r \in DOMAIN _pipeline_stats' :
              _pipeline_stats'[r] # NoStats =>
                  (_pipeline_stats'[r].exist <=>
                       _pipeline_stats'[r].mod_datetime # None)
        /\ (result'.op = "add" /\ ~Raised) =>
              \A item \in StatsItems : Add(item) =>
                  (_pipeline_stats'[str(item)].exist <=>
                       stat(Canon(str(item))).st = "file")
        /\ result'.op = "mod_datetime" =>
              \A item \in StatsItems :
                  (ModDatetime(str(item)) /\ ~_pipeline_stats[str(item)].exist)
                      => result' = Call("mod_datetime", "none", None) ]_vars

\* ----------------------------------------------------- claims about the store
\* C21: in every state reached from a load by add_pipeline, remove_pipeline and
\* playlist[i] = value, `r in playlist` is true exactly when r is an entry of
\* the ordered sequence.
C21_ContainsIffListed ==
    \A item \in Items :
        __contains__(item) <=> str(item) \in Range(_pipeline_list)

\* C23: load_playlist_file() on a store that exists, with no file or a
\* well-formed one, leaves the sequence equal to the file's list and the stats
\* keys equal to its entries, whatever the store held; a second load right
\* after a construction or a load leaves the store as the first one left it.
C23_LoadReplaces ==
    [][ (Load /\ (~playlist_file.exists \/ WellFormed(playlist_file))) =>
            /\ _pipeline_list' = IF playlist_file.exists
                                 THEN playlist_file.doc.node.items ELSE <<>>
            /\ DOMAIN _pipeline_stats' = Range(_pipeline_list')
            /\ JustLoaded =>
                  /\ StoreUnchanged
                  /\ result'.exc = result.exc ]_vars

C23_Witness ==
    /\ result = Call("load", "none", None)
    /\ playlist_file = YamlFile(<<"b.yml", "a.yml">>)
    /\ _pipeline_list = <<"b.yml", "a.yml">>
    /\ fresh = None

\* ---------------------------------------------- claims about nested iteration
\* The positions the two loops have taken between them since the second started.
Taken == Len(yielded[1]) + Len(outer[1].got) - outer[1].at

\* C22 as stated: whenever a second loop started while the first was under way,
\* the first loop does not get every entry of the store exactly once.
C22_FirstLoopIncomplete ==
    (outer # None /\ outer[1].stopped) => outer[1].got # _pipeline_list

\* C22: the loops over one store share the cursor that the start of the second
\* loop resets: each __next__ of the first loop returns the entry after the
\* last position either loop has taken since, or raises StopIteration when none
\* is left, so that after the restart the two loops take every position at
\* most once between them and the first loop gets nothing once the second has
\* run to its end.
C22_SharedCursor ==
    [][ NextOuter =>
          /\ result' = IF Taken < Len(_pipeline_list)
                       THEN Call("next", "none", Some(_pipeline_list[Taken + 1]))
                       ELSE Call("next", "StopIteration", None)
          /\ yielded[1] = _pipeline_list => outer'[1].got = outer[1].got ]_vars

C22_Witness ==
    /\ outer # None
    /\ outer[1].stopped
    /\ outer[1].got = <<"a.yml">>
    /\ yielded = Some(_pipeline_list)
    /\ Len(_pipeline_list) = 3

\* ----------------------------------------------------- claims on the player
\* What a tick of the timer did, told by its effect on the player.
Performed(op) ==
    CASE op = "playback" -> Becomes(do_playback(Self))
      [] op = "start" -> Becomes(run_pipeline_start(Self))
      [] op = "end" -> _pipeline # None /\ Becomes(run_pipeline_end(Self))
      [] op = "iteration" ->
            \E pipeline_end \in BOOLEAN :
                Becomes(run_pipeline_one_iteration(Self, pipeline_end))

TickOps == {"playback", "start", "iteration", "end"}

AnyTick == \E pipeline_end \in BOOLEAN : Tick(pipeline_end)

\* C24: the pipeline run and the output playback never go on together: a press
\* of play/stop while the pipeline runs starts no playback, and a tick of the
\* timer in state "play" performs exactly one of a playback step, the pipeline
\* start, one pipeline iteration and the pipeline end.
C24_RunOrPlayback ==
    [][ /\ ~(is_pipeline_running /\ is_output_playback)
        /\ ~(is_pipeline_running' /\ is_output_playback')
        /\ (PressPlayStop /\ is_pipeline_running) => ~is_output_playback'
        /\ (PressPlayStop /\ ~is_output_playback /\ is_output_playback')
              => ~is_pipeline_running
        /\ (AnyTick /\ state = "play")
              => Cardinality({op \in TickOps : Performed(op)}) = 1 ]_vars

C24_Witness ==
    /\ is_output_playback /\ ~is_pipeline_running
    /\ ticks = Some(1)
    /\ Len(frames) = MaxFrames

\* C25: once run_pipeline_end has run, the player is never again in state
\* "play" with neither the playback nor the pipeline going, and no tick of the
\* timer starts the pipeline a second time.
C25_StartedOnce ==
    [][ /\ tk_scale.shown
            => ~(state = "play" /\ ~is_output_playback /\ ~is_pipeline_running)
        /\ (AnyTick /\ Performed("start")) => _pipeline = None ]_vars

C25_Witness ==
    /\ tk_scale.shown /\ state = "stop" /\ ~is_output_playback
    /\ ticks # None /\ ticks[1] >= 1

\* C26: a tick of the timer that finds the running pipeline told to terminate
\* runs run_pipeline_end: no frame is appended, is_pipeline_running is false
\* and the state is "stop" after it; and no step after that appends a frame.
C26_TerminateEndsRun ==
    [][ /\ (AnyTick /\ state = "play" /\ is_pipeline_running
                /\ _pipeline[1].terminate)
              => /\ Performed("end")
                 /\ ~is_pipeline_running'
                 /\ state' = "stop"
                 /\ frames' = frames
        /\ (frames' # frames)
              => /\ is_pipeline_running /\ ~_pipeline[1].terminate
                 /\ ~tk_scale.shown ]_vars

C26_Witness ==
    /\ tk_scale.shown /\ ~is_pipeline_running /\ state = "stop"
    /\ Len(frames) = 1 /\ num_iter = 0

\* C27: while the playback goes and the user does nothing, every tick of the
\* timer moves frame_idx one frame on, until it is at the last frame; the tick
\* that finds it there stops the playback and puts the state to "stop".  The
\* k-th tick finds frame_idx at k at least, so there are len(frames) ticks at
\* most.
C27_PlaybackStops ==
    [][ /\ is_output_playback => state = "play"
        /\ (is_output_playback /\ ticks # None)
              => ticks[1] <= frame_idx /\ ticks[1] < Len(frames)
        /\ (PressPlayStop /\ is_output_playback')
              => IF frame_idx + 1 >= Len(frames)
                 THEN frame_idx' = 1 ELSE frame_idx' = frame_idx + 1
        /\ (AnyTick /\ is_output_playback)
              => IF frame_idx + 1 < Len(frames)
                 THEN frame_idx' = frame_idx + 1 /\ is_output_playback'
                 ELSE /\ frame_idx' = frame_idx
                      /\ ~is_output_playback' /\ state' = "stop" ]_vars

C27_Witness ==
    /\ ~is_output_playback /\ state = "stop"
    /\ ticks = Some(MaxFrames - 1)
    /\ frame_idx = MaxFrames - 1

\* C28: frame_idx is -1 at least and len(frames) - 1 at most.
C28_FrameIdxInRange == 0 - 1 <= frame_idx /\ frame_idx <= Len(frames) - 1

\* C29: zoom_idx is an index of ZOOMS; a zoom-in at the largest zoom and a
\* zoom-out at the smallest leave it as it is, by the button as by the
\* shortcut, and ctrl-z puts it to the index of 1x.
C29_ZoomInRange ==
    [][ /\ 0 <= zoom_idx' /\ zoom_idx' <= Len(ZOOMS) - 1
        /\ (PressZoomIn \/ KeyPress("ctrl", "+"))
              => zoom_idx' = IF zoom_idx = Len(ZOOMS) - 1
                             THEN zoom_idx ELSE zoom_idx + 1
        /\ (PressZoomOut \/ KeyPress("ctrl", "-"))
              => zoom_idx' = IF zoom_idx = 0 THEN zoom_idx ELSE zoom_idx - 1
        /\ KeyPress("ctrl", "z")
              => /\ zoom_idx' = ZOOM_DEFAULT_IDX
                 /\ ZOOMS[zoom_idx' + 1] = 100
                 /\ ZOOM_TEXT[zoom_idx' + 1] = "1x"
        /\ (\E key \in Keys : KeyPress("shift", key)) => zoom_idx' = zoom_idx
      ]_vars

C29_Witness == zoom_idx = Len(ZOOMS) - 1 /\ bkgd_job # None

\* ------------------------------------------------------- claims on the view
\* C30: register_callback stores the callback under "add", "delete" or "play",
\* in the place of the one stored there before, and leaves the others; under
\* any other operation name it raises ValueError and leaves the callbacks as
\* they are.
C30_RegisterCallback ==
    [][ \A operation \in Operations : \A player_callback \in Callbacks :
          RegisterCallback(operation, player_callback) =>
             IF operation \in {"add", "delete", "play"}
             THEN /\ result'.exc = "none"
                  /\ DOMAIN _callback' = DOMAIN _callback \cup {operation}
                  /\ _callback'[operation] = player_callback
                  /\ \A o \in DOMAIN _callback \ {operation} :
                        _callback'[o] = _callback[o]
             ELSE /\ result'.exc = "ValueError"
                  /\ _callback' = _callback ]_vars

C30_Witness ==
    /\ result = Call("register_callback", "ValueError", Some("edit"))
    /\ DOMAIN _callback = {"add", "delete", "play"}
    /\ _callback["add"] = "on_play_pipeline"

====
